---- MODULE Spec2Model ----
(***************************************************************************)
(* git-status-color: one run of main() in src/git-status-color.c.          *)
(*                                                                         *)
(* Characters are modelled by their ASCII codes, C strings by sequences of *)
(* codes ended by a 0 byte, standard output by the sequence of bytes       *)
(* written to it.  The external command (`git rev-parse HEAD`) is the      *)
(* environment: whether it starts, the bytes it writes, the status it      *)
(* exits with, and what the library calls leave in errno are chosen        *)
(* nondeterministically.                                                   *)
(***************************************************************************)
EXTENDS Integers, Sequences, FiniteSets, TLC

VARIABLES
    pc,           \* position of main: popen, fgets, strnlen, decode, classify, print, cleanup, done, aborted
    command,      \* FILE* command: "NULL", "open" or "closed"
    input,        \* bytes the command wrote to its standard output
    buffer,       \* char buffer[EXPECTED_OUTPUT_LENGTH]
    output,       \* char *output: "NULL" or "buffer"
    errno,        \* the process-wide errno
    r, g, b,      \* uint8_t r, g, b
    mode,         \* int mode (0 until it is assigned)
    stdout,       \* bytes written to standard output
    status_code,  \* int status_code
    childStatus,  \* exit status of the command as pclose collects it (-1: not collected)
    run,          \* 1 for the first execution of the program, 2 for a second one
    prev          \* what the first execution read and produced, once a second one is started

vars == <<pc, command, input, buffer, output, errno, r, g, b, mode, stdout,
          status_code, childStatus, run, prev>>

----------------------------------------------------------------------------
(* Program constants *)

SHA1_HEX_LENGTH == 40

\* SHA1_HEX_LENGTH + sizeof("\n"); sizeof counts the terminating 0 byte.
EXPECTED_OUTPUT_LENGTH == SHA1_HEX_LENGTH + 2

EXIT_SUCCESS == 0

EXIT_FAILURE == 1

EINVAL == 22

SET_24BIT_FOREGROUND == 38

SET_24BIT_BACKGROUND == 48

\* CSI "\033["
CSI == <<27, 91>>

\* SGR "m"
SGR == <<109>>

\* SET_WHITE_FOREGROUND "37"
SET_WHITE_FOREGROUND == <<51, 55>>

----------------------------------------------------------------------------
(* Bounds of the model *)

\* how many characters of CharTable the first characters of the input are drawn from
NumChars == 3

\* the longest run of characters the command writes before a newline or its end
MaxBody == 41

\* the channel values of the brightness specification are the multiples of
\* ChannelStep in 0..255, with 127, 128 and 255
ChannelStep == 8

----------------------------------------------------------------------------
(* The environment's choices *)

\* '0' 'f' 'A' 'g' '\n' '9' 'a' NUL '/' ':' '`' 'F'
CharTable == <<48, 102, 65, 103, 10, 57, 97, 0, 47, 58, 96, 70>>

Chars == {CharTable[i] : i \in 1..NumChars}

\* the characters that follow the first PrefixLen ones: '0' (hex) or 'z' (not hex)
FillChars == {48, 122}

\* the number of characters main decodes
PrefixLen == 6

Min(x, y) == IF x < y THEN x ELSE y

\* n characters: those of pre, then fill; then a newline if nl
Stream(pre, n, fill, nl) ==
    [i \in 1..n |-> IF i <= Len(pre) THEN pre[i] ELSE fill]
        \o (IF nl THEN <<10>> ELSE <<>>)

BodyLengths == (0..PrefixLen) \cup ((SHA1_HEX_LENGTH - 1)..MaxBody)

StreamsFrom(prefixes) ==
    UNION {{Stream(p, n, f, nl) : f \in FillChars, nl \in BOOLEAN} :
           p \in prefixes, n \in {m \in BodyLengths : m >= PrefixLen}}

\* what the command may write
Streams ==
    UNION {{Stream(p, n, 48, nl) : p \in [1..n -> Chars], nl \in BOOLEAN} :
           n \in 0..(PrefixLen - 1)}
    \cup StreamsFrom([1..PrefixLen -> Chars])

\* errno after a library call that succeeded: left as it was, or set to some
\* nonzero value (POSIX leaves errno unspecified after a successful call)
LibErrno == {25}

ErrnoAfterCall(e) == {e} \cup LibErrno

\* exit statuses of the command
ChildStatuses == {0, 128}

----------------------------------------------------------------------------
(* Helpers: C operators on non-negative integers *)

RECURSIVE BitAnd(_, _)
BitAnd(x, y) ==
    IF x = 0 \/ y = 0 THEN 0
    ELSE 2 * BitAnd(x \div 2, y \div 2) + (IF x % 2 = 1 /\ y % 2 = 1 THEN 1 ELSE 0)

RECURSIVE BitOr(_, _)
BitOr(x, y) ==
    IF x = 0 THEN y
    ELSE IF y = 0 THEN x
    ELSE 2 * BitOr(x \div 2, y \div 2) + (IF x % 2 = 1 \/ y % 2 = 1 THEN 1 ELSE 0)

\* conversion to uint8_t
Uint8(x) == x % 256

\* strnlen(s, maxlen): the index of the first 0 byte, at most maxlen
RECURSIVE StrnlenFrom(_, _, _)
StrnlenFrom(s, i, maxlen) ==
    IF i >= maxlen \/ s[i + 1] = 0 THEN i ELSE StrnlenFrom(s, i + 1, maxlen)

strnlen(s, maxlen) == StrnlenFrom(s, 0, maxlen)

\* printf("%d") of a non-negative int
RECURSIVE FormatD(_)
FormatD(n) ==
    IF n < 10 THEN <<48 + n>> ELSE Append(FormatD(n \div 10), 48 + (n % 10))

\* the number of bytes fgets(buf, size, stream) stores before the 0 byte: it
\* stops after a newline, at the end of the stream, or after size - 1 bytes
RECURSIVE FgetsCount(_, _, _)
FgetsCount(s, i, size) ==
    IF i >= size - 1 \/ i >= Len(s) THEN i
    ELSE IF s[i + 1] = 10 THEN i + 1
    ELSE FgetsCount(s, i + 1, size)

\* the buffer after fgets has read n > 0 bytes of s into it
FgetsStore(buf, s, n) ==
    [i \in 1..Len(buf) |-> IF i <= n THEN s[i] ELSE IF i = n + 1 THEN 0 ELSE buf[i]]

----------------------------------------------------------------------------
(* parse_hex_ascii_byte, parse_hex_octet, light_or_dark *)

\* parse_hex_ascii_byte, had it taken the uppercase digits A-F as well
parse_hex_ascii_byte_upper(c, e) ==
    IF c >= 48 /\ c <= 57 THEN [val |-> BitAnd(c, 15), errno |-> e]
    ELSE IF (c >= 97 /\ c <= 102) \/ (c >= 65 /\ c <= 70)
         THEN [val |-> 9 + BitAnd(c, 15), errno |-> e]
    ELSE [val |-> 255, errno |-> EINVAL]

\* the value returned and errno afterwards, given errno e before
parse_hex_ascii_byte(c, e) ==
    IF c >= 48 /\ c <= 57 THEN [val |-> BitAnd(c, 15), errno |-> e]
    ELSE IF c >= 97 /\ c <= 102 THEN [val |-> 9 + BitAnd(c, 15), errno |-> e]
    ELSE [val |-> 255, errno |-> EINVAL]

\* start is the offset into buf (0-based, as in the C code)
parse_hex_octet(buf, start, e) ==
    LET upper == parse_hex_ascii_byte(buf[start + 1], e)
        lower == parse_hex_ascii_byte(buf[start + 2], upper.errno)
    IN  [val |-> Uint8(BitOr(upper.val * 16, lower.val)), errno |-> lower.errno]

\* Luminance, had the blue weight been mistyped as 144
Luminance_weights(cr, cg, cb) == (299 * cr + 587 * cg + 144 * cb) \div 1000

Luminance(cr, cg, cb) == (299 * cr + 587 * cg + 114 * cb) \div 1000

\* light_or_dark, had the comparison been luminance >= (0xFF / 2)
light_or_dark_ge(cr, cg, cb) ==
    LET luminance == Luminance(cr, cg, cb)
    IN  [asserted |-> luminance >= 0 /\ luminance <= 255,
         result   |-> IF luminance >= (255 \div 2) THEN "LIGHT" ELSE "DARK"]

\* the value returned, and whether the assertion passed
light_or_dark(cr, cg, cb) ==
    LET luminance == Luminance(cr, cg, cb)
    IN  [asserted |-> luminance >= 0 /\ luminance <= 255,
         result   |-> IF luminance > (255 \div 2) THEN "LIGHT" ELSE "DARK"]

----------------------------------------------------------------------------
(* main *)

NoPrev == [prefix |-> <<>>, out |-> <<>>, status |-> EXIT_FAILURE]

Init ==
    /\ pc = "popen"
    /\ command = "NULL"
    /\ input = <<>>
    /\ buffer = [i \in 1..EXPECTED_OUTPUT_LENGTH |-> 0]
    /\ output = "NULL"
    /\ errno = 0
    /\ r = 0 /\ g = 0 /\ b = 0
    /\ mode = 0
    /\ stdout = <<>>
    /\ status_code = EXIT_FAILURE
    /\ childStatus = -1
    /\ run = 1
    /\ prev = NoPrev

\* command = popen(...); if (command == NULL) goto cleanup;
Popen ==
    /\ pc = "popen"
    /\ \E ok \in BOOLEAN :
         IF ok
         THEN /\ command' = "open"
              /\ pc' = "fgets"
              /\ errno' \in ErrnoAfterCall(errno)
         ELSE /\ command' = "NULL"
              /\ pc' = "cleanup"
              /\ errno' \in LibErrno
    /\ UNCHANGED <<input, buffer, output, r, g, b, mode, stdout, status_code,
                   childStatus, run, prev>>

\* the streams a run may read: any, or in a second execution those that
\* start with the characters the first execution decoded
StreamsOfRun == IF run = 1 THEN Streams ELSE StreamsFrom({prev.prefix})

\* output = fgets(buffer, EXPECTED_OUTPUT_LENGTH, command); if (output == NULL) goto cleanup;
Fgets ==
    /\ pc = "fgets"
    /\ \E s \in StreamsOfRun :
         LET n == FgetsCount(s, 0, EXPECTED_OUTPUT_LENGTH)
         IN  /\ input' = s
             /\ IF n = 0
                THEN /\ output' = "NULL"
                     /\ buffer' = buffer
                     /\ pc' = "cleanup"
                ELSE /\ output' = "buffer"
                     /\ buffer' = FgetsStore(buffer, s, n)
                     /\ pc' = "strnlen"
    /\ errno' \in ErrnoAfterCall(errno)
    /\ UNCHANGED <<command, r, g, b, mode, stdout, status_code, childStatus, run, prev>>

\* if (strnlen(buffer, EXPECTED_OUTPUT_LENGTH) < SHA1_HEX_LENGTH) goto cleanup;
CheckLength ==
    /\ pc = "strnlen"
    /\ pc' = IF strnlen(buffer, EXPECTED_OUTPUT_LENGTH) < SHA1_HEX_LENGTH
             THEN "cleanup" ELSE "decode"
    /\ UNCHANGED <<command, input, buffer, output, errno, r, g, b, mode, stdout,
                   status_code, childStatus, run, prev>>

\* r, g, b = parse_hex_octet(buffer + 0, 2, 4); if (errno) goto cleanup;
Decode ==
    /\ pc = "decode"
    /\ LET pr == parse_hex_octet(buffer, 0, errno)
           pg == parse_hex_octet(buffer, 2, pr.errno)
           pb == parse_hex_octet(buffer, 4, pg.errno)
       IN  /\ r' = pr.val
           /\ g' = pg.val
           /\ b' = pb.val
           /\ errno' = pb.errno
           /\ pc' = IF pb.errno # 0 THEN "cleanup" ELSE "classify"
    /\ UNCHANGED <<command, input, buffer, output, mode, stdout, status_code,
                   childStatus, run, prev>>

\* int mode = (light_or_dark(r, g, b) == LIGHT) ? SET_24BIT_FOREGROUND : SET_24BIT_BACKGROUND;
\* a failed assertion aborts the process
Classify ==
    /\ pc = "classify"
    /\ LET c == light_or_dark(r, g, b)
       IN  IF c.asserted
           THEN /\ mode' = IF c.result = "LIGHT" THEN SET_24BIT_FOREGROUND
                           ELSE SET_24BIT_BACKGROUND
                /\ pc' = "print"
           ELSE /\ mode' = mode
                /\ pc' = "aborted"
    /\ UNCHANGED <<command, input, buffer, output, errno, r, g, b, stdout,
                   status_code, childStatus, run, prev>>

\* Emit, had the white foreground been printed before the colour
Emit_white_first ==
    /\ pc = "print"
    /\ LET colour == CSI \o FormatD(mode) \o <<59, 50, 59>> \o FormatD(r) \o <<59>>
                         \o FormatD(g) \o <<59>> \o FormatD(b) \o SGR
           white  == IF mode = SET_24BIT_BACKGROUND
                     THEN CSI \o SET_WHITE_FOREGROUND \o SGR ELSE <<>>
       IN  stdout' = stdout \o white \o colour
    /\ status_code' = EXIT_SUCCESS
    /\ pc' = "cleanup"
    /\ UNCHANGED <<command, input, buffer, output, errno, r, g, b, mode,
                   childStatus, run, prev>>

\* Emit, had status_code been left at EXIT_FAILURE
Emit_no_status ==
    /\ pc = "print"
    /\ LET colour == CSI \o FormatD(mode) \o <<59, 50, 59>> \o FormatD(r) \o <<59>>
                         \o FormatD(g) \o <<59>> \o FormatD(b) \o SGR
           white  == IF mode = SET_24BIT_BACKGROUND
                     THEN CSI \o SET_WHITE_FOREGROUND \o SGR ELSE <<>>
       IN  stdout' = stdout \o colour \o white
    /\ status_code' = status_code
    /\ pc' = "cleanup"
    /\ UNCHANGED <<command, input, buffer, output, errno, r, g, b, mode,
                   childStatus, run, prev>>

\* printf(CSI "%d;2;%d;%d;%d" SGR, mode, r, g, b);
\* if (mode == SET_24BIT_BACKGROUND) printf(CSI SET_WHITE_FOREGROUND SGR);
\* status_code = EXIT_SUCCESS;
Emit ==
    /\ pc = "print"
    /\ LET colour == CSI \o FormatD(mode) \o <<59, 50, 59>> \o FormatD(r) \o <<59>>
                         \o FormatD(g) \o <<59>> \o FormatD(b) \o SGR
           white  == IF mode = SET_24BIT_BACKGROUND
                     THEN CSI \o SET_WHITE_FOREGROUND \o SGR ELSE <<>>
       IN  stdout' = stdout \o colour \o white
    /\ status_code' = EXIT_SUCCESS
    /\ pc' = "cleanup"
    /\ UNCHANGED <<command, input, buffer, output, errno, r, g, b, mode,
                   childStatus, run, prev>>

\* cleanup: if (command) pclose(command); return status_code;
Cleanup ==
    /\ pc = "cleanup"
    /\ IF command = "open"
       THEN /\ command' = "closed"
            /\ childStatus' \in ChildStatuses
       ELSE UNCHANGED <<command, childStatus>>
    /\ pc' = "done"
    /\ UNCHANGED <<input, buffer, output, errno, r, g, b, mode, stdout,
                   status_code, run, prev>>

Next == Popen \/ Fgets \/ CheckLength \/ Decode \/ Classify \/ Emit \/ Cleanup

Spec == Init /\ [][Next]_vars

----------------------------------------------------------------------------
(* Two executions of the program, for statements that compare runs *)

\* the program is started again; what the first execution decoded and produced
\* is remembered.  Only executions that passed the length check are compared.
Rerun ==
    /\ pc = "done"
    /\ run = 1
    /\ output = "buffer"
    /\ strnlen(buffer, EXPECTED_OUTPUT_LENGTH) >= SHA1_HEX_LENGTH
    /\ prev' = [prefix |-> SubSeq(buffer, 1, PrefixLen), out |-> stdout,
                status |-> status_code]
    /\ run' = 2
    /\ pc' = "popen"
    /\ command' = "NULL"
    /\ input' = <<>>
    /\ buffer' = [i \in 1..EXPECTED_OUTPUT_LENGTH |-> 0]
    /\ output' = "NULL"
    /\ errno' = 0
    /\ r' = 0 /\ g' = 0 /\ b' = 0
    /\ mode' = 0
    /\ stdout' = <<>>
    /\ status_code' = EXIT_FAILURE
    /\ childStatus' = -1

NextPair == Next \/ Rerun

PairSpec == Init /\ [][NextPair]_vars

----------------------------------------------------------------------------
(* The decoder, the classifier and the emitter on every colour of a grid:  *)
(* main from the state in which fgets has read a 40-digit lowercase        *)
(* hexadecimal line and the length check has passed.                       *)

Channels == {v \in 0..255 : v % ChannelStep = 0} \cup {127, 128, 255}

HexDigit(v) == IF v < 10 THEN 48 + v ELSE 87 + v

HexPair(v) == <<HexDigit(v \div 16), HexDigit(v % 16)>>

HexLine(cr, cg, cb) ==
    Stream(HexPair(cr) \o HexPair(cg) \o HexPair(cb), SHA1_HEX_LENGTH, 48, TRUE)

InitHex ==
    /\ pc = "decode"
    /\ command = "open"
    /\ \E cr \in Channels, cg \in Channels, cb \in Channels :
         /\ input = HexLine(cr, cg, cb)
         /\ buffer = FgetsStore([i \in 1..EXPECTED_OUTPUT_LENGTH |-> 0],
                                HexLine(cr, cg, cb), SHA1_HEX_LENGTH + 1)
    /\ output = "buffer"
    /\ errno \in ErrnoAfterCall(0)
    /\ r = 0 /\ g = 0 /\ b = 0
    /\ mode = 0
    /\ stdout = <<>>
    /\ status_code = EXIT_FAILURE
    /\ childStatus = -1
    /\ run = 1
    /\ prev = NoPrev

NextHex == Decode \/ Classify \/ Emit \/ Cleanup

HexSpec == InitHex /\ [][NextHex]_vars

----------------------------------------------------------------------------
(* Vocabulary of the properties, stated without the program's operators *)

IsLowerHex(c) == c \in (48..57) \cup (97..102)

\* the value of a lowercase hexadecimal digit
DigitValue(c) == IF c <= 57 THEN c - 48 ELSE c - 87

\* the number of characters of s before its first newline, or its end
LineLength(s) ==
    IF \E i \in 1..Len(s) : s[i] = 10
    THEN (CHOOSE i \in 1..Len(s) : s[i] = 10 /\ \A j \in 1..(i - 1) : s[j] # 10) - 1
    ELSE Len(s)

\* one of the first six characters read is not a lowercase hexadecimal digit
InvalidPrefix(s) == \E i \in 1..Min(PrefixLen, Len(s)) : ~IsLowerHex(s[i])

ValidPrefix(s) == Len(s) >= PrefixLen /\ \A i \in 1..PrefixLen : IsLowerHex(s[i])

\* main has read a line and found it long enough
PassedLengthCheck ==
    /\ pc \in {"decode", "classify", "print", "cleanup", "done"}
    /\ output = "buffer"
    /\ strnlen(buffer, EXPECTED_OUTPUT_LENGTH) >= SHA1_HEX_LENGTH

\* the fields of s between separators sep
RECURSIVE Split(_, _)
Split(s, sep) ==
    IF \E i \in 1..Len(s) : s[i] = sep
    THEN LET k == CHOOSE i \in 1..Len(s) : s[i] = sep /\ \A j \in 1..(i - 1) : s[j] # sep
         IN  <<SubSeq(s, 1, k - 1)>> \o Split(SubSeq(s, k + 1, Len(s)), sep)
    ELSE <<s>>

\* d is a decimal numeral without padding
IsDecimal(d) ==
    /\ Len(d) >= 1
    /\ \A i \in 1..Len(d) : d[i] \in 48..57
    /\ Len(d) > 1 => d[1] # 48

RECURSIVE DecimalValue(_)
DecimalValue(d) ==
    IF d = <<>> THEN 0
    ELSE 10 * DecimalValue(SubSeq(d, 1, Len(d) - 1)) + (d[Len(d)] - 48)

\* s is ESC [ m ; 2 ; R ; G ; B m for some R, G, B in 0..255
IsColourForm(s, m) ==
    /\ Len(s) >= 4
    /\ s[1] = 27 /\ s[2] = 91 /\ s[Len(s)] = 109
    /\ LET f == Split(SubSeq(s, 3, Len(s) - 1), 59)
       IN  /\ Len(f) = 5
           /\ \A i \in 1..5 : IsDecimal(f[i])
           /\ DecimalValue(f[1]) = m
           /\ DecimalValue(f[2]) = 2
           /\ \A i \in 3..5 : DecimalValue(f[i]) <= 255

\* s is ESC [ m ; 2 ; cr ; cg ; cb m
IsColourSequence(s, m, cr, cg, cb) ==
    /\ IsColourForm(s, m)
    /\ LET f == Split(SubSeq(s, 3, Len(s) - 1), 59)
       IN  DecimalValue(f[3]) = cr /\ DecimalValue(f[4]) = cg /\ DecimalValue(f[5]) = cb

\* ESC [ 3 7 m
WhiteForeground == <<27, 91, 51, 55, 109>>

EndsWithWhite(s) ==
    Len(s) > 5 /\ SubSeq(s, Len(s) - 4, Len(s)) = WhiteForeground

\* the foreground form, or the background form followed by the white foreground
CompleteDirective(s) ==
    \/ IsColourForm(s, 38)
    \/ EndsWithWhite(s) /\ IsColourForm(SubSeq(s, 1, Len(s) - 5), 48)

Silent == stdout = <<>> /\ status_code # 0

----------------------------------------------------------------------------
(* Properties *)

\* C1: a line that passes the length check and starts with six lowercase
\* hexadecimal digits is decoded without the failure check aborting, and r, g, b
\* are 16 * digit + digit of the pairs at offsets 0, 2 and 4.
C1_ValidPrefixDecodes ==
    (pc \in {"cleanup", "done"} /\ PassedLengthCheck /\ ValidPrefix(buffer)) =>
        /\ status_code = EXIT_SUCCESS
        /\ r = 16 * DigitValue(buffer[1]) + DigitValue(buffer[2])
        /\ g = 16 * DigitValue(buffer[3]) + DigitValue(buffer[4])
        /\ b = 16 * DigitValue(buffer[5]) + DigitValue(buffer[6])

\* C2: when one of the first six characters of the input is not in [0-9a-f],
\* at no point is anything written, a colour mode chosen or the status made 0.
C2_InvalidDigitIsSilent ==
    InvalidPrefix(input) => Silent /\ mode = 0 /\ pc \notin {"classify", "print"}

\* a 41-byte line whose sixth character alone is invalid ('A') went through the
\* decoder and the run ended
C2_Witness ==
    /\ pc = "done"
    /\ PassedLengthCheck
    /\ \A i \in 1..5 : IsLowerHex(input[i])
    /\ input[6] = 65
    /\ errno = EINVAL

\* C3: an input with fewer than 40 characters before its newline or end ends
\* with nothing written and a nonzero status.
C3_ShortInputIsSilent ==
    (pc = "done" /\ LineLength(input) < SHA1_HEX_LENGTH) => Silent

C5_BrightnessThreshold ==
    /\ (light_or_dark(r, g, b).result = "LIGHT") <=> (299 * r + 587 * g + 114 * b >= 128000)
    /\ light_or_dark(r, g, b).result \in {"LIGHT", "DARK"}
    /\ mode # 0 => (mode = 38 <=> 299 * r + 587 * g + 114 * b >= 128000)
    /\ light_or_dark(127, 127, 127).result = "DARK"
    /\ light_or_dark(128, 128, 128).result = "LIGHT"
    /\ light_or_dark(255, 255, 255).result = "LIGHT"
    /\ light_or_dark(0, 0, 0).result = "DARK"
    /\ Luminance(128, 64, 32) = 79
    /\ light_or_dark(128, 64, 32).result = "DARK"

\* the colour of luminance exactly 127 was classified, as DARK
C5_Witness ==
    /\ pc = "print"
    /\ r = 127 /\ g = 127 /\ b = 127
    /\ mode = SET_24BIT_BACKGROUND

\* C6: no run leaves anything but nothing or a complete directive on standard
\* output, and a finished run has status 0 exactly when it wrote a complete
\* directive; with a nonzero status standard output is empty.
C6_StatusIffComplete ==
    /\ stdout = <<>> \/ CompleteDirective(stdout)
    /\ pc = "done" =>
         /\ status_code = 0 <=> CompleteDirective(stdout)
         /\ status_code # 0 => stdout = <<>>

\* a run ended with status 0 after writing the background form
C6_Witness ==
    /\ pc = "done"
    /\ status_code = 0
    /\ mode = SET_24BIT_BACKGROUND
    /\ stdout # <<>>

\* C7: when the command could not be started, exited unsuccessfully or wrote
\* nothing, the run ends with nothing written and a nonzero status.
C7_FailedCommandIsSilent ==
    (/\ pc = "done"
     /\ \/ command = "NULL"
        \/ command = "closed" /\ childStatus # 0
        \/ command = "closed" /\ input = <<>>) => Silent

\* C8: two executions whose lines pass the length check and agree on their
\* first six characters write the same bytes and exit with the same status.
C8_SamePrefixSameOutcome ==
    (/\ run = 2
     /\ pc = "done"
     /\ PassedLengthCheck
     /\ SubSeq(buffer, 1, PrefixLen) = prev.prefix) =>
        stdout = prev.out /\ status_code = prev.status

\* C9: the assertion of light_or_dark holds on every colour main passes: the
\* channels are in 0..255, the weighted sum fits a 32-bit int, and the
\* luminance is in 0..255.
C9_AssertionHolds ==
    /\ pc # "aborted"
    /\ r \in 0..255 /\ g \in 0..255 /\ b \in 0..255
    /\ 299 * r + 587 * g + 114 * b <= 2147483647
    /\ light_or_dark(r, g, b).asserted

\* white, the colour of the largest luminance, was classified
C9_Witness ==
    /\ pc = "print"
    /\ r = 255 /\ g = 255 /\ b = 255
    /\ Luminance(r, g, b) = 255

\* C10: the failure check after the three parse_hex_octet calls aborts only
\* when one of the first six characters is invalid, whatever errno held after
\* popen and fgets.
C10_AbortOnlyOnInvalidDigit ==
    (pc \in {"cleanup", "done"} /\ PassedLengthCheck /\ status_code # EXIT_SUCCESS) =>
        InvalidPrefix(buffer)

====
